---- MODULE Spec2Model ----
(***************************************************************************)
(* A model of the asana-go client's workspace and story operations:        *)
(*   src/workspaces.go  Client.Workspace, Workspace.Expand,                *)
(*                      Client.Workspaces, Client.AllWorkspaces            *)
(*   src/stories.go     Task.Stories, Task.CreateComment,                  *)
(*                      Story.UpdateStory, Story.Delete                    *)
(* The HTTP transport (Client.get/post/put/delete), the option merge and   *)
(* Expandable.init are defined outside these two files; they are modelled  *)
(* from the written specification of the library.  The remote API is the   *)
(* environment: every answer it gives is drawn from a small set.           *)
(***************************************************************************)
EXTENDS Integers, Sequences, FiniteSets, TLC

VARIABLES
    \* ---- Client.AllWorkspaces: locals, position and return value
    wpc,            \* "idle" | "loop" (inside the for loop) | "done" (returned)
    options,        \* the caller's variadic options
    allWorkspaces,  \* accumulator
    nextPage,       \* *NextPage: <<>> is nil, <<[Offset |-> o]>> a pointer
    workspaces,     \* result of the latest Client.Workspaces call
    err,            \* error of the latest Client.Workspaces call
    ret,            \* the returned pair: [isNil, list, err]
    \* ---- what the transport saw of the walk
    nCalls,         \* Client.Workspaces invocations of this walk (saturating)
    lastReq,        \* option list of the latest listing call: <<>> or <<list>>
    lastEffective,  \* merged options of the latest listing request
    reqPrevNext,    \* NextPage the transport had returned before that call
    srvMode,        \* "finite" | "endless"
    srvPages,       \* N: the number of answers a finite transport gives
    srvLeft,        \* answers a finite transport still has to give
    srvConcat,      \* concatenation of the pages served without error
    srvPrevNext,    \* NextPage of the transport's latest answer
    srvErr,         \* the error the transport answered with, if any
    \* ---- Workspace handles and Expand
    handle,         \* <<>> or <<w>>: the object Client.Workspace(id) built
    handleId,       \* the id given to Client.Workspace
    listed,         \* the objects the caller holds from a listing call
    expLog,         \* Expand calls so far: [obj, issued, path, terr, err]
    \* ---- stories
    sLast,          \* <<>> or <<record of the latest story operation>>
    srvDeleted,     \* story ids whose DELETE succeeded on the server
    nStoryOps       \* story operations performed

walkVars  == <<wpc, options, allWorkspaces, nextPage, workspaces, err, ret>>
srvVars   == <<nCalls, lastReq, lastEffective, reqPrevNext, srvMode, srvPages,
               srvLeft, srvConcat, srvPrevNext, srvErr>>
objVars   == <<handle, handleId, listed, expLog>>
storyVars == <<sLast, srvDeleted, nStoryOps>>
vars      == <<walkVars, srvVars, objVars, storyVars>>

----------------------------------------------------------------------------
\* Bounds of the model

\* the longest page sequence a finite transport serves
MaxPages == 3
\* the longest caller option list
MaxOpts == 1
\* Expand calls recorded between two resets of the log
MaxExpands == 2
\* story operations in one run
MaxStoryOps == 3

----------------------------------------------------------------------------
\* Values

Nil == <<>>
Ptr(x) == <<x>>
NoErr == "nil"
Errors == {"E1", "E2"}

Ids == {1, 2}
Names == {"", "n1"}
Offsets == {"", "o1", "o2"}

\* a Go sequence append(a, b...)
append(a, b) == a \o b

Min(a, b) == IF a < b THEN a ELSE b

RECURSIVE SeqsUpTo(_, _)
SeqsUpTo(S, n) ==
    IF n = 0 THEN {<<>>}
    ELSE LET T == SeqsUpTo(S, n - 1)
         IN  T \cup {Append(t, s) : t \in {u \in T : Len(u) = n - 1}, s \in S}

----------------------------------------------------------------------------
\* Options and their merge

\* the page size the walker asks for
PageLimit == 100

\* the zero value of Options
ZeroOptions == [Limit |-> 0, Offset |-> "", Fields |-> <<>>]

\* options a caller may pass: an own Offset, or an own Limit and field list
CallerOptions ==
    { [Limit |-> 0,  Offset |-> "x", Fields |-> <<>>],
      [Limit |-> 50, Offset |-> "",  Fields |-> <<"name">>] }

CallerOptionLists == SeqsUpTo(CallerOptions, MaxOpts)

\* merge one option into another: a field already set is kept
Merge(dst, src) ==
    [Limit  |-> IF dst.Limit  # 0    THEN dst.Limit  ELSE src.Limit,
     Offset |-> IF dst.Offset # ""   THEN dst.Offset ELSE src.Offset,
     Fields |-> IF dst.Fields # <<>> THEN dst.Fields ELSE src.Fields]

\* the options of a request: for every field the first non-empty value of the list
RECURSIVE MergeOptions(_)
MergeOptions(opts) ==
    IF opts = <<>> THEN ZeroOptions
    ELSE Merge(Head(opts), MergeOptions(Tail(opts)))

----------------------------------------------------------------------------
\* Workspace objects and the transport's GET

\* the zero value &Workspace{}; hydrated is a history field: the object's
\* fields were filled from a response
ZeroWorkspace == [ID |-> 0, Name |-> "", expanded |-> FALSE, hydrated |-> FALSE]

\* Expandable.init(id, client): the single client is not represented
init(w, id) == [w EXCEPT !.ID = id, !.expanded = FALSE]

\* Client.Workspace(id)
Workspace(id) == init(ZeroWorkspace, id)

\* fmt.Sprintf("/workspaces/%d", id)
WorkspacePath(id) == <<"workspaces", id>>

\* "/workspaces"
WorkspacesPath == <<"workspaces">>

\* JSON decoding of a workspace document into an existing object: a key the
\* document carries overwrites the field, an absent one (0, "") leaves it;
\* the object counts as expanded afterwards
DecodeInto(w, doc) ==
    [ID       |-> IF doc.id # 0 THEN doc.id ELSE w.ID,
     Name     |-> IF doc.name # "" THEN doc.name ELSE w.Name,
     expanded |-> TRUE,
     hydrated |-> TRUE]

\* what a failed call may leave in its target: the fields decoded before the
\* failure; the object is not marked expanded
DecodePartly(w, doc) ==
    [w EXCEPT !.ID = IF doc.id # 0 THEN doc.id ELSE w.ID,
              !.Name = IF doc.name # "" THEN doc.name ELSE w.Name]

\* JSON decoding of an array of workspace documents into a fresh slice
RECURSIVE DecodeList(_)
DecodeList(docs) ==
    IF docs = <<>> THEN <<>>
    ELSE <<DecodeInto(ZeroWorkspace, Head(docs))>> \o DecodeList(Tail(docs))

\* Client.get(path, nil, target) for one object; ans is the remote answer
getOne(path, target, ans) ==
    [target |-> IF ans.err = NoErr THEN DecodeInto(target, ans.doc)
                ELSE DecodePartly(target, ans.doc),
     err    |-> ans.err,
     reqs   |-> <<[method |-> "GET", path |-> path]>>]

\* Client.get(path, nil, &result, options...) for a collection
getMany(path, opts, ans) ==
    [result   |-> DecodeList(ans.docs),
     nextPage |-> ans.next,
     err      |-> ans.err,
     reqs     |-> <<[method |-> "GET", path |-> path, options |-> opts,
                     effective |-> MergeOptions(opts)]>>]

\* Expand without its guard: the GET is issued whatever the flag says
ExpandNoGuard(w, ans) ==
    LET r == getOne(WorkspacePath(w.ID), w, ans)
    IN  [w |-> r.target, err |-> r.err, reqs |-> r.reqs]

\* Expand that tries the GET a second time when the first one fails
ExpandRetry(w, ans) ==
    IF w.expanded
    THEN [w |-> w, err |-> NoErr, reqs |-> <<>>]
    ELSE LET r == getOne(WorkspacePath(w.ID), w, ans)
             q == getOne(WorkspacePath(w.ID), r.target, ans)
         IN  IF r.err = NoErr
             THEN [w |-> r.target, err |-> r.err, reqs |-> r.reqs]
             ELSE [w |-> q.target, err |-> q.err, reqs |-> r.reqs \o q.reqs]

\* Expand that marks the receiver expanded before the GET has answered
ExpandOptimistic(w, ans) ==
    IF w.expanded
    THEN [w |-> w, err |-> NoErr, reqs |-> <<>>]
    ELSE LET r == getOne(WorkspacePath(w.ID), [w EXCEPT !.expanded = TRUE], ans)
         IN  [w |-> r.target, err |-> r.err, reqs |-> r.reqs]

\* Expand that clears the receiver before decoding into it
ExpandReset(w, ans) ==
    IF w.expanded
    THEN [w |-> w, err |-> NoErr, reqs |-> <<>>]
    ELSE LET r == getOne(WorkspacePath(w.ID), ZeroWorkspace, ans)
         IN  [w |-> r.target, err |-> r.err, reqs |-> r.reqs]

\* Workspace.Expand on receiver w: the new receiver, the returned error and
\* the requests issued
Expand(w, ans) ==
    IF w.expanded
    THEN [w |-> w, err |-> NoErr, reqs |-> <<>>]
    ELSE LET r == getOne(WorkspacePath(w.ID), w, ans)
         IN  [w |-> r.target, err |-> r.err, reqs |-> r.reqs]

\* Client.Workspaces(options...)
Workspaces(opts, ans) ==
    LET r == getMany(WorkspacesPath, opts, ans)
    IN  [result |-> r.result, nextPage |-> r.nextPage, err |-> r.err,
         reqs |-> r.reqs]

----------------------------------------------------------------------------
\* Client.AllWorkspaces

\* the locals before the loop
WalkStart ==
    [allWorkspaces |-> <<>>, nextPage |-> Ptr([Offset |-> ""]),
     workspaces |-> <<>>, err |-> NoErr]

\* the return value while the call is running
NoRet == [returned |-> FALSE, isNil |-> TRUE, list |-> <<>>, err |-> NoErr]

\* the page option of one pass: page := &Options{Limit: 100, Offset: nextPage.Offset}
PageOptions(np) == [Limit |-> PageLimit, Offset |-> np[1].Offset, Fields |-> <<>>]

\* allOptions := append([]*Options{page}, options...)
AllOptions(page, opts) == append(<<page>>, opts)

\* an error return that hands out what was accumulated so far
ErrorReturnPartial(all, e) ==
    [returned |-> TRUE, isNil |-> FALSE, list |-> all, err |-> e]

\* return nil, err
ErrorReturn(all, e) ==
    [returned |-> TRUE, isNil |-> TRUE, list |-> <<>>, err |-> e]

\* an accumulation that puts the new page in front
AccumulatePrepend(all, ws) == append(ws, all)

\* allWorkspaces = append(allWorkspaces, workspaces...)
Accumulate(all, ws) == append(all, ws)

\* a loop condition that also ends the walk on an empty page
ContinueNonEmpty(l) == l.nextPage # Nil /\ l.workspaces # <<>>

\* a loop condition with a cap on what is collected
ContinueCapped(l) == l.nextPage # Nil /\ Len(l.allWorkspaces) < 2

\* the loop condition, on the locals: for nextPage != nil
Continue(l) == l.nextPage # Nil

\* return allWorkspaces, nil
FinalReturn(all) ==
    [returned |-> TRUE, isNil |-> FALSE, list |-> all, err |-> NoErr]

\* one pass of the loop body, entered with the loop condition true, up to the
\* next test of the loop condition.  pc is "done" when the function returns in
\* this pass or right after it.
LoopBody(l, opts, ans) ==
    LET r == Workspaces(AllOptions(PageOptions(l.nextPage), opts), ans)
        l1 == [allWorkspaces |-> l.allWorkspaces, nextPage |-> r.nextPage,
               workspaces |-> r.result, err |-> r.err]
        l2 == [l1 EXCEPT !.allWorkspaces = Accumulate(l.allWorkspaces, r.result)]
    IN  IF r.err # NoErr
        THEN [l |-> l1, reqs |-> r.reqs, pc |-> "done",
              ret |-> ErrorReturn(l.allWorkspaces, r.err)]
        ELSE IF Continue(l2)
        THEN [l |-> l2, reqs |-> r.reqs, pc |-> "loop", ret |-> NoRet]
        ELSE [l |-> l2, reqs |-> r.reqs, pc |-> "done",
              ret |-> FinalReturn(l2.allWorkspaces)]

\* AllWorkspaces run to its return against a scripted transport
RECURSIVE RunWalk(_, _, _)
RunWalk(l, opts, script) ==
    LET b == LoopBody(l, opts, Head(script))
    IN  IF b.pc = "done" \/ Len(script) = 1 THEN b
        ELSE RunWalk(b.l, opts, Tail(script))

----------------------------------------------------------------------------
\* The remote API's answers to GET /workspaces and GET /workspaces/<id>

Doc(i) == [id |-> i, name |-> "n1"]
DocPages == {<<>>} \cup {<<Doc(i)>> : i \in Ids}
Cursors == {Ptr([Offset |-> o]) : o \in Offsets}

\* a page with more to come
MorePages(pages) ==
    {[err |-> NoErr, docs |-> p, next |-> c] : p \in pages, c \in Cursors}

\* the last page
LastPages == {[err |-> NoErr, docs |-> p, next |-> Nil] : p \in DocPages}

\* a failed call; what was decoded before the failure is arbitrary
FailedPages ==
    {[err |-> e, docs |-> p, next |-> c] :
        e \in Errors, p \in {<<>>, <<Doc(1)>>},
        c \in {Nil, Ptr([Offset |-> "o1"])}}

\* the walk's call counter saturates here
CallCap == MaxPages + 2

\* what the transport of the current walk may answer next.  A finite
\* transport gives srvPages answers, the last one a last page or a failure;
\* an endless one has finitely many items and never reports the end.
ListAnswers ==
    IF srvMode = "endless"
    THEN MorePages(IF Len(srvConcat) < MaxPages THEN DocPages ELSE {<<>>})
    ELSE IF srvLeft > 1 THEN MorePages(DocPages)
    ELSE LastPages \cup FailedPages

\* scripts of at most two answers ending in a last page or a failure
Scripts ==
    {<<f>> : f \in LastPages \cup FailedPages}
    \cup {<<[err |-> NoErr, docs |-> p, next |-> Ptr([Offset |-> "o1"])], f>> :
            p \in DocPages, f \in LastPages \cup FailedPages}

\* answers to GET /workspaces/<id>; id 0 and name "" stand for an absent key
GetAnswers ==
    {[err |-> NoErr, doc |-> [id |-> i, name |-> n]] :
        i \in {0} \cup Ids, n \in Names}
    \cup {[err |-> e, doc |-> [id |-> i, name |-> ""]] :
            e \in Errors, i \in {0} \cup Ids}

----------------------------------------------------------------------------
\* Initial state

Init ==
    /\ wpc = "idle"
    /\ options = <<>>
    /\ allWorkspaces = <<>>
    /\ nextPage = Nil
    /\ workspaces = <<>>
    /\ err = NoErr
    /\ ret = NoRet
    /\ nCalls = 0
    /\ lastReq = Nil
    /\ lastEffective = ZeroOptions
    /\ reqPrevNext = Nil
    /\ srvMode = "finite"
    /\ srvPages = 0
    /\ srvLeft = 0
    /\ srvConcat = <<>>
    /\ srvPrevNext = Nil
    /\ srvErr = NoErr
    /\ handle = Nil
    /\ handleId = 0
    /\ listed = <<>>
    /\ expLog = <<>>
    /\ sLast = Nil
    /\ srvDeleted = {}
    /\ nStoryOps = 0

----------------------------------------------------------------------------
\* The walk, one listing call at a time

\* the caller enters AllWorkspaces(opts...) against a fresh transport
AllWorkspacesCall ==
    /\ wpc \in {"idle", "done"}
    /\ \E opts \in CallerOptionLists, mode \in {"finite", "endless"},
          n \in 1..MaxPages :
        /\ options' = opts
        /\ srvMode' = mode
        /\ srvPages' = IF mode = "finite" THEN n ELSE 0
        /\ srvLeft' = IF mode = "finite" THEN n ELSE 0
    /\ allWorkspaces' = WalkStart.allWorkspaces
    /\ nextPage' = WalkStart.nextPage
    /\ workspaces' = WalkStart.workspaces
    /\ err' = WalkStart.err
    /\ wpc' = "loop"
    /\ ret' = NoRet
    /\ nCalls' = 0
    /\ lastReq' = Nil
    /\ lastEffective' = ZeroOptions
    /\ reqPrevNext' = Nil
    /\ srvConcat' = <<>>
    /\ srvPrevNext' = Nil
    /\ srvErr' = NoErr
    /\ UNCHANGED <<objVars, storyVars>>

\* one pass of the loop, the listing call and the transport's answer included
AllWorkspacesLoop ==
    /\ wpc = "loop"
    /\ \E ans \in ListAnswers :
        \E b \in {LoopBody([allWorkspaces |-> allWorkspaces,
                            nextPage |-> nextPage, workspaces |-> workspaces,
                            err |-> err], options, ans)} :
        LET last == b.reqs[Len(b.reqs)]
        IN  /\ allWorkspaces' = b.l.allWorkspaces
            /\ nextPage' = b.l.nextPage
            /\ workspaces' = b.l.workspaces
            /\ err' = b.l.err
            /\ wpc' = b.pc
            /\ ret' = b.ret
            /\ nCalls' = Min(nCalls + Len(b.reqs), CallCap)
            /\ lastReq' = Ptr(last.options)
            /\ lastEffective' = last.effective
            /\ reqPrevNext' = srvPrevNext
            /\ srvPrevNext' = ans.next
            /\ srvErr' = ans.err
            /\ srvLeft' = IF srvMode = "finite" THEN srvLeft - 1 ELSE srvLeft
            /\ srvConcat' = IF ans.err = NoErr
                            THEN srvConcat \o DecodeList(ans.docs)
                            ELSE srvConcat
    /\ UNCHANGED <<options, srvMode, srvPages, objVars, storyVars>>

----------------------------------------------------------------------------
\* Workspace objects in the caller's hands

ForHandle(e) == e.obj = 0
ForListed(e) == e.obj # 0

\* Client.Workspace(id)
WorkspaceCall ==
    /\ \E id \in Ids :
        /\ handle' = Ptr(Workspace(id))
        /\ handleId' = id
    /\ expLog' = SelectSeq(expLog, ForListed)
    /\ UNCHANGED <<listed, walkVars, srvVars, storyVars>>

\* Client.Workspaces(opts...) called by the user: one page
WorkspacesCall ==
    /\ \E opts \in CallerOptionLists,
          ans \in MorePages(DocPages) \cup LastPages \cup FailedPages :
        listed' = Workspaces(opts, ans).result
    /\ expLog' = SelectSeq(expLog, ForHandle)
    /\ UNCHANGED <<handle, handleId, walkVars, srvVars, storyVars>>

\* Client.AllWorkspaces(opts...) called by the user, to its return
AllWorkspacesRun ==
    /\ \E opts \in CallerOptionLists, script \in Scripts :
        listed' = RunWalk(WalkStart, opts, script).ret.list
    /\ expLog' = SelectSeq(expLog, ForHandle)
    /\ UNCHANGED <<handle, handleId, walkVars, srvVars, storyVars>>

\* obj.Expand(): obj 0 is the handle, obj i > 0 the i-th listed object
ExpandCall ==
    /\ Len(expLog) < MaxExpands
    /\ \E obj \in 0..Len(listed), ans \in GetAnswers :
        /\ obj = 0 => handle # Nil
        /\ \E w \in {IF obj = 0 THEN handle[1] ELSE listed[obj]} :
           \E r \in {Expand(w, ans)} :
               /\ handle' = IF obj = 0 THEN Ptr(r.w) ELSE handle
               /\ listed' = IF obj = 0 THEN listed
                            ELSE [listed EXCEPT ![obj] = r.w]
               /\ expLog' = Append(expLog,
                     [obj |-> obj, before |-> w.expanded, id |-> w.ID,
                      after |-> r.w.expanded, reqs |-> r.reqs,
                      docId |-> IF r.reqs = <<>> THEN 0 ELSE ans.doc.id,
                      terr |-> IF r.reqs = <<>> THEN NoErr ELSE ans.err,
                      err |-> r.err])
    /\ UNCHANGED <<handleId, walkVars, srvVars, storyVars>>

NextWalk == AllWorkspacesCall \/ AllWorkspacesLoop
NextObj == WorkspaceCall \/ WorkspacesCall \/ AllWorkspacesRun \/ ExpandCall

\* the walk against its transport
SpecWalk == Init /\ [][NextWalk]_vars

\* the walk, its loop running on: a pass that can be taken is taken
FairWalk == SpecWalk /\ WF_vars(AllWorkspacesLoop)

\* workspace objects: construction, listing, expansion
SpecObj == Init /\ [][NextObj]_vars

----------------------------------------------------------------------------
\* Stories (src/stories.go)

TaskIds == {"t1", "t2"}
StoryIds == {"s1", "s2"}

\* the tasks and stories the caller holds
Tasks == {[ID |-> t, Name |-> "task"] : t \in TaskIds}
Stories0 == {[ID |-> i, Text |-> "old"] : i \in StoryIds}

\* a StoryBase the caller sends
StoryBases == {[Text |-> "new"]}

\* &Story{}
ZeroStory == [ID |-> "", Text |-> ""]

\* fmt.Sprintf("/tasks/%s/stories", id)
TaskStoriesPath(id) == <<"tasks", id, "stories">>

\* fmt.Sprintf("/stories/%s", id)
StoryPath(id) == <<"stories", id>>

\* JSON decoding of a story document
DecodeStory(s, doc) ==
    [ID   |-> IF doc.gid # "" THEN doc.gid ELSE s.ID,
     Text |-> IF doc.text # "" THEN doc.text ELSE s.Text]

RECURSIVE DecodeStories(_)
DecodeStories(docs) ==
    IF docs = <<>> THEN <<>>
    ELSE <<DecodeStory(ZeroStory, Head(docs))>> \o DecodeStories(Tail(docs))

\* Client.get(path, nil, &result, opts...) for a collection of stories
getStories(path, opts, ans) ==
    [result   |-> DecodeStories(ans.docs),
     nextPage |-> ans.next,
     err      |-> ans.err,
     reqs     |-> <<[method |-> "GET", path |-> path]>>]

\* Client.post(path, body, result)
post(path, body, result, ans) ==
    [result |-> IF ans.err = NoErr THEN DecodeStory(result, ans.doc) ELSE result,
     err    |-> ans.err,
     reqs   |-> <<[method |-> "POST", path |-> path]>>]

\* Client.put(path, body, result)
put(path, body, result, ans) ==
    [result |-> IF ans.err = NoErr THEN DecodeStory(result, ans.doc) ELSE result,
     err    |-> ans.err,
     reqs   |-> <<[method |-> "PUT", path |-> path]>>]

\* Client.delete(path)
delete(path, ans) ==
    [err |-> ans.err, reqs |-> <<[method |-> "DELETE", path |-> path]>>]

\* Task.Stories(client, opts...)
Stories(t, opts, ans) ==
    LET r == getStories(TaskStoriesPath(t.ID), opts, ans)
    IN  [result |-> r.result, nextPage |-> r.nextPage, err |-> r.err,
         reqs |-> r.reqs]

\* Task.CreateComment(client, story)
CreateComment(t, story, ans) ==
    LET r == post(TaskStoriesPath(t.ID), story, ZeroStory, ans)
    IN  [result |-> r.result, err |-> r.err, reqs |-> r.reqs]

\* Story.UpdateStory(client, story)
UpdateStory(s, story, ans) ==
    LET r == put(StoryPath(s.ID), story, ZeroStory, ans)
    IN  [result |-> r.result, err |-> r.err, reqs |-> r.reqs]

\* Delete that sends the request again when it fails
DeleteRetry(s, ans) ==
    LET r == delete(StoryPath(s.ID), ans)
        q == delete(StoryPath(s.ID), ans)
    IN  IF r.err = NoErr THEN [err |-> r.err, reqs |-> r.reqs]
        ELSE [err |-> q.err, reqs |-> r.reqs \o q.reqs]

\* Story.Delete(client)
Delete(s, ans) ==
    LET r == delete(StoryPath(s.ID), ans)
    IN  [err |-> r.err, reqs |-> r.reqs]

\* the remote API's answers to the story calls
StoryAnswers ==
    {[err |-> e, doc |-> [gid |-> g, text |-> "new"]] :
        e \in Errors \cup {NoErr}, g \in StoryIds}

StoryListAnswers ==
    {[err |-> e, docs |-> d, next |-> Nil] :
        e \in Errors \cup {NoErr},
        d \in {<<>>, <<[gid |-> "s1", text |-> "old"]>>}}

\* the record of one finished story operation
Done(op, id, r, ans) ==
    Ptr([op |-> op, id |-> id, reqs |-> r.reqs, terr |-> ans.err,
         err |-> r.err, gone |-> id \in srvDeleted])

StoriesCall ==
    /\ nStoryOps < MaxStoryOps
    /\ \E t \in Tasks, ans \in StoryListAnswers :
        sLast' = Done("Stories", t.ID, Stories(t, <<>>, ans), ans)
    /\ nStoryOps' = nStoryOps + 1
    /\ UNCHANGED <<srvDeleted, walkVars, srvVars, objVars>>

CreateCommentCall ==
    /\ nStoryOps < MaxStoryOps
    /\ \E t \in Tasks, b \in StoryBases, ans \in StoryAnswers :
        sLast' = Done("CreateComment", t.ID, CreateComment(t, b, ans), ans)
    /\ nStoryOps' = nStoryOps + 1
    /\ UNCHANGED <<srvDeleted, walkVars, srvVars, objVars>>

UpdateStoryCall ==
    /\ nStoryOps < MaxStoryOps
    /\ \E s \in Stories0, b \in StoryBases, ans \in StoryAnswers :
        sLast' = Done("UpdateStory", s.ID, UpdateStory(s, b, ans), ans)
    /\ nStoryOps' = nStoryOps + 1
    /\ UNCHANGED <<srvDeleted, walkVars, srvVars, objVars>>

DeleteCall ==
    /\ nStoryOps < MaxStoryOps
    /\ \E s \in Stories0, ans \in StoryAnswers :
        /\ sLast' = Done("Delete", s.ID, Delete(s, ans), ans)
        /\ srvDeleted' = IF ans.err = NoErr THEN srvDeleted \cup {s.ID}
                         ELSE srvDeleted
    /\ nStoryOps' = nStoryOps + 1
    /\ UNCHANGED <<walkVars, srvVars, objVars>>

NextStory == StoriesCall \/ CreateCommentCall \/ UpdateStoryCall \/ DeleteCall

\* the story operations
SpecStory == Init /\ [][NextStory]_vars

Next == NextWalk \/ NextObj \/ NextStory

\* the whole client
Spec == Init /\ [][Next]_vars

----------------------------------------------------------------------------
\* Properties

\* the Offset of a cursor, "" for the start of a walk
OffsetOf(np) == IF np = Nil THEN "" ELSE np[1].Offset

\* C1: when a transport of N pages (N-1 with a cursor, the last without, no
\* error) has been walked, AllWorkspaces has returned a nil error and the
\* concatenation of the pages' items in page order, after exactly N calls of
\* Client.Workspaces.
C1_Concatenation ==
    (ret.returned /\ srvMode = "finite" /\ srvErr = NoErr) =>
        /\ ret.err = NoErr
        /\ ~ret.isNil
        /\ ret.list = srvConcat
        /\ srvLeft = 0
        /\ nCalls = srvPages

\* a walk of three pages returned, its first two items different
C1_Witness ==
    /\ ret.returned
    /\ srvErr = NoErr
    /\ srvPages = 3
    /\ Len(ret.list) = 3
    /\ ret.list[1] # ret.list[2]

\* C3: when the listing call for page k fails, AllWorkspaces returns that
\* error with a nil list (what pages 1..k-1 gave is not handed out) and has
\* made exactly k listing calls: the walk is over.
C3_FailureDiscards ==
    srvErr # NoErr =>
        /\ wpc = "done"
        /\ ret.returned
        /\ ret.err = srvErr
        /\ ret.isNil
        /\ ret.list = <<>>
        /\ nCalls = srvPages

\* the third page failed after the first two had delivered items
C3_Witness ==
    /\ srvErr # NoErr
    /\ ret.returned
    /\ srvPages = 3
    /\ Len(srvConcat) = 2

\* the option list of every listing call is the page option followed by the
\* caller's options; the page option has Limit 100 and the Offset of the
\* cursor returned by the preceding call
C4_ListShape ==
    lastReq # Nil =>
        /\ lastReq[1] = <<lastReq[1][1]>> \o options
        /\ lastReq[1][1].Limit = PageLimit
        /\ lastReq[1][1].Offset = OffsetOf(reqPrevNext)

\* C4: in every listing call the option list is the walker's page option
\* followed by the caller's options, the page option has Limit 100 and the
\* Offset of the preceding cursor, and the effective (merged) Limit and
\* Offset of the request are the page option's, whatever the caller passes.
C4_WalkerControls ==
    lastReq # Nil =>
        /\ C4_ListShape
        /\ lastEffective.Limit = lastReq[1][1].Limit
        /\ lastEffective.Offset = lastReq[1][1].Offset

\* C6: after a listing call without error the walk goes on exactly when the
\* returned cursor is not nil, whatever the page holds, and the next call is
\* made with that cursor's Offset.
C6_EmptyPageGoesOn ==
    /\ (nCalls > 0 /\ srvErr = NoErr) =>
          /\ (wpc = "loop") <=> (srvPrevNext # Nil)
          /\ ret.returned <=> (srvPrevNext = Nil)
          /\ nextPage = srvPrevNext
    /\ lastReq # Nil => lastReq[1][1].Offset = OffsetOf(reqPrevNext)

\* a second call was made after an empty first page, with its cursor's Offset
C6_Witness ==
    /\ nCalls = 2
    /\ srvErr = NoErr
    /\ workspaces # <<>>
    /\ Len(srvConcat) = Len(workspaces)
    /\ reqPrevNext # Nil
    /\ lastReq[1][1].Offset = reqPrevNext[1].Offset

\* C9: AllWorkspaces has returned only after an answer with a nil cursor or
\* an error; against a transport that always answers with a cursor and no
\* error it never returns and can always make another call; against a
\* transport that ends with a nil cursor or an error it returns.
C9_Termination ==
    /\ [](ret.returned => (srvPrevNext = Nil \/ srvErr # NoErr))
    /\ [](srvMode = "endless" =>
            (wpc = "loop" /\ ~ret.returned /\ ENABLED AllWorkspacesLoop))
    /\ ((wpc = "loop" /\ srvMode = "finite") ~> ret.returned)

\* an endless walk that has made more calls than any finite transport serves
C9_Witness ==
    /\ srvMode = "endless"
    /\ wpc = "loop"
    /\ nCalls = CallCap

\* the Expand calls on the handle, in order
HandleLog == SelectSeq(expLog, ForHandle)

\* C2: the first Expand on a fresh handle issues one GET; once an Expand on
\* the handle has succeeded, every later Expand on it issues no request and
\* returns no error: two calls with a succeeding transport make one GET.
C2_ExpandOnce ==
    /\ HandleLog # <<>> =>
          /\ ~HandleLog[1].before
          /\ HandleLog[1].reqs =
                <<[method |-> "GET", path |-> WorkspacePath(handleId)]>>
    /\ \A i, j \in DOMAIN HandleLog :
          (i < j /\ HandleLog[i].err = NoErr) =>
              (HandleLog[j].reqs = <<>> /\ HandleLog[j].err = NoErr)

\* two Expand calls on the handle, the first one successful
C2_Witness ==
    /\ Len(HandleLog) >= 2
    /\ HandleLog[1].reqs # <<>>
    /\ HandleLog[1].err = NoErr
    /\ HandleLog[2].reqs = <<>>

\* C5: an Expand on an unexpanded handle whose GET fails returns the
\* transport's error, leaves the flag false and has issued exactly one GET;
\* the next Expand on the handle issues a GET again.
C5_ExpandFailure ==
    \A i \in DOMAIN HandleLog :
        (~HandleLog[i].before /\ HandleLog[i].terr # NoErr) =>
            /\ HandleLog[i].err = HandleLog[i].terr
            /\ ~HandleLog[i].after
            /\ Len(HandleLog[i].reqs) = 1
            /\ (i = Len(HandleLog) => ~handle[1].expanded)
            /\ (i < Len(HandleLog) =>
                    /\ ~HandleLog[i + 1].before
                    /\ Len(HandleLog[i + 1].reqs) = 1)

\* a failed Expand followed by one that issued a GET again
C5_Witness ==
    /\ Len(HandleLog) >= 2
    /\ HandleLog[1].terr # NoErr
    /\ HandleLog[2].reqs # <<>>

\* C7: the flag of an object tells whether it was filled from a response: a
\* handle nobody has expanded is unexpanded and carries the given id only;
\* every listed object is expanded; the handle is expanded exactly when it
\* was filled; and Expand on an expanded object issues no request.
C7_FlagTellsHydration ==
    /\ (handle # Nil /\ HandleLog = <<>>) =>
          handle[1] = [ZeroWorkspace EXCEPT !.ID = handleId]
    /\ handle # Nil => (handle[1].expanded <=> handle[1].hydrated)
    /\ \A i \in DOMAIN listed : listed[i].expanded /\ listed[i].hydrated
    /\ \A i \in DOMAIN expLog : expLog[i].before => expLog[i].reqs = <<>>
    /\ \A i \in DOMAIN expLog : expLog[i].obj # 0 => expLog[i].before

\* an expanded handle, and an Expand on a listed object that made no request
C7_Witness ==
    /\ handle # Nil
    /\ handle[1].expanded
    /\ \E i \in DOMAIN expLog :
          expLog[i].obj # 0 /\ expLog[i].before /\ expLog[i].reqs = <<>>

\* C8 as stated: whatever Expand decoded into the handle, its ID is the id
\* given at construction.
C8_IdImmutable ==
    handle # Nil => handle[1].ID = handleId

\* the documents decoded into the handle carried the id of the handle or none
C8_SameIdAnswers ==
    \A i \in DOMAIN HandleLog :
        HandleLog[i].reqs # <<>> => HandleLog[i].docId \in {0, handleId}

\* C8 (amended): the handle's ID is the id given at construction as long as
\* every document decoded into it carried that id or no id; Expand itself
\* never assigns the ID.
C8_IdKeptBySameIdAnswers ==
    (handle # Nil /\ C8_SameIdAnswers) => handle[1].ID = handleId

\* a failed and a successful Expand on the handle, its ID still the given one
C8_Witness ==
    /\ Len(HandleLog) >= 2
    /\ HandleLog[1].terr # NoErr
    /\ HandleLog[2].reqs # <<>>
    /\ HandleLog[2].err = NoErr
    /\ HandleLog[2].docId = handleId
    /\ C8_SameIdAnswers
    /\ handle[1].ID = handleId

\* the one request a story operation makes
StoryRequest(op, id) ==
    CASE op = "Stories"       -> [method |-> "GET",    path |-> TaskStoriesPath(id)]
      [] op = "CreateComment" -> [method |-> "POST",   path |-> TaskStoriesPath(id)]
      [] op = "UpdateStory"   -> [method |-> "PUT",    path |-> StoryPath(id)]
      [] op = "Delete"        -> [method |-> "DELETE", path |-> StoryPath(id)]

\* C10: every story operation makes exactly one request, the one of its
\* method and path, and returns the transport's error as it is, also on a
\* story whose Delete has succeeded; and while operations remain, UpdateStory
\* and Delete can be called whatever was deleted.
C10_SingleRoundTrip ==
    /\ sLast # Nil =>
          /\ sLast[1].reqs = <<StoryRequest(sLast[1].op, sLast[1].id)>>
          /\ sLast[1].err = sLast[1].terr
    /\ nStoryOps < MaxStoryOps =>
          (ENABLED UpdateStoryCall /\ ENABLED DeleteCall)

\* a Delete that failed on a story already deleted
C10_Witness ==
    /\ sLast # Nil
    /\ sLast[1].op = "Delete"
    /\ sLast[1].gone
    /\ sLast[1].terr # NoErr
    /\ nStoryOps < MaxStoryOps

====
